---------------------------- MODULE Spec2Model ----------------------------
(***************************************************************************)
(* alertmanager-stomp-forwarder: the forwarding pipeline of main.go.       *)
(*                                                                         *)
(* Each inbound POST /alerts/:topic runs alertPOSTHandler in a goroutine   *)
(* of its own; the goroutines share the three prometheus collectors and    *)
(* the process itself.  log is a logrus logger, so log.Fatalf writes the   *)
(* entry and then calls os.Exit(1): the whole process stops, with every    *)
(* request that is in flight.                                              *)
(***************************************************************************)
EXTENDS Integers, Sequences, FiniteSets, TLC

\* Number of inbound requests the model lets the router dispatch.
NReq == 2

\* Longest "alerts" array of a request body.
MaxAlerts == 2

Requests == 1..NReq

\* http.StatusOK and http.StatusInternalServerError; NoStatus is a response
\* writer on which WriteHeader was never called.
StatusOK == 200
StatusInternalServerError == 500
NoStatus == 0

Topics == {"kubernetes"}

\* The i-th Alert struct of a batch; the alerts of one batch differ in their
\* labels, so that their order shows.
Alert(i) == [labels |-> [alertname |-> i]]

\* The alerts arrays of the request bodies: one of every length.
AlertSeqs == {[i \in 1..n |-> Alert(i)] : n \in 0..MaxAlerts}

\* A request body as encoding/json sees it:
\*   "ok"     valid JSON of the Alerts shape, whose alerts array is .alerts;
\*   "syntax" not valid JSON: Unmarshal checks validity first and leaves the
\*            target untouched;
\*   "type"   valid JSON with a type mismatch on some known field: Unmarshal
\*            fills what it can (here .alerts) and returns the first
\*            UnmarshalTypeError.
Payloads ==
    [kind : {"ok", "type"}, alerts : AlertSeqs]
        \cup {[kind |-> "syntax", alerts |-> <<>>]}

\* What stands where a request has no body yet.
NoBody == [kind |-> "syntax", alerts |-> <<>>]

VARIABLES
    alive,        \* the process is running (FALSE after os.Exit)
    req,          \* per request: the locals of alertPOSTHandler / sendAlertToStomp
    httpDuration, \* number of observations of the histogram
    httpCounter,  \* http_request_total, by response_code
    amqRequests,  \* amq_total_requests, by result
    broker,       \* per request: the frames the broker received on its connections
    hist          \* per request: history of what the request did (for the properties)

vars == <<alive, req, httpDuration, httpCounter, amqRequests, broker, hist>>

---------------------------------------------------------------------------
(* Pure helpers *)

\* prometheus Counter.Inc on the child with this label: atomic add of one.
Inc(counter, label) == [counter EXCEPT ![label] = @ + 1]

\* unmarshalAlerts: the decoded struct and whether json.Unmarshal failed.
unmarshalAlerts(requestBody) ==
    [alerts |-> IF requestBody.kind = "syntax" THEN <<>> ELSE requestBody.alerts,
     err    |-> requestBody.kind # "ok"]

\* json.Marshal(alert): the bytes of the message.
Marshal(alert) == <<"json", alert.labels.alertname>>

\* The SEND frame of stompConn.Send(topic, "application/json", message).
Frame(topic, message) ==
    [destination |-> topic, contentType |-> "application/json", body |-> message]

LoopPcSkipLast(as, i) == IF i < Len(as) THEN "dial" ELSE "finish"

\* for _, alert := range alerts.Alerts: where control goes with i the index
\* of the next element.
LoopPc(as, i) == IF i <= Len(as) THEN "dial" ELSE "finish"

CurrentAlertReversed(as, i) == as[Len(as) + 1 - i]

\* The loop variable alert in iteration i.
CurrentAlert(as, i) == as[i]

---------------------------------------------------------------------------
InitReq ==
    [pc          |-> "idle",
     topic       |-> "",
     requestBody |-> NoBody,
     alerts      |-> <<>>,
     idx         |-> 1,
     stompConn   |-> "nil",
     err         |-> FALSE,
     status      |-> NoStatus]

InitHist ==
    [failure     |-> "none",  \* the failure this request ran into
     attempts    |-> 0,       \* calls of sendAlertToStomp
     connects    |-> 0,       \* connections opened
     disconnects |-> 0,       \* Disconnect calls
     onConn      |-> <<>>,    \* per connection opened: frames sent on it
     observed    |-> 0,       \* timer.ObserveDuration calls
     httpInc     |-> <<>>,    \* labels of its httpCounter increments
     ok          |-> 0,       \* its amqRequests "ok" increments
     notOk       |-> 0]       \* its amqRequests "not_ok" increments

Init ==
    /\ alive = TRUE
    /\ req = [r \in Requests |-> InitReq]
    /\ httpDuration = 0
    /\ httpCounter = [c \in {StatusOK, StatusInternalServerError} |-> 0]
    /\ amqRequests = [l \in {"ok", "not_ok"} |-> 0]
    /\ broker = [r \in Requests |-> <<>>]
    /\ hist = [r \in Requests |-> InitHist]

---------------------------------------------------------------------------
(* alertPOSTHandler *)

\* The router dispatches a request to the handler: the timer starts, the
\* topic is taken from the path, io.ReadAll reads the body; and the error
\* branch of the read.
Receive(r) ==
    /\ alive
    /\ req[r].pc = "idle"
    /\ \E t \in Topics, readErr \in BOOLEAN, body \in Payloads :
         IF readErr
         THEN /\ httpDuration' = httpDuration + 1
              /\ httpCounter' = Inc(httpCounter, StatusInternalServerError)
              /\ req' = [req EXCEPT ![r] = [@ EXCEPT
                             !.pc = "fatal",
                             !.topic = t,
                             !.status = StatusInternalServerError]]
              /\ hist' = [hist EXCEPT ![r] = [@ EXCEPT
                             !.failure = "read",
                             !.observed = @ + 1,
                             !.httpInc = Append(@, StatusInternalServerError)]]
         ELSE /\ req' = [req EXCEPT ![r] = [@ EXCEPT
                             !.pc = "decode",
                             !.topic = t,
                             !.requestBody = body]]
              /\ UNCHANGED <<httpDuration, httpCounter, hist>>
    /\ UNCHANGED <<alive, amqRequests, broker>>

\* The decode-failure branch without its exit: the handler carries on into
\* the publish loop with whatever was decoded.
DecodeFallThrough(r) ==
    /\ alive
    /\ req[r].pc = "decode"
    /\ LET res == unmarshalAlerts(req[r].requestBody) IN
         /\ req' = [req EXCEPT ![r] = [@ EXCEPT
                        !.pc = LoopPc(res.alerts, 1),
                        !.alerts = res.alerts,
                        !.idx = 1]]
         /\ hist' = [hist EXCEPT ![r] = [@ EXCEPT
                        !.failure = IF res.err THEN "decode" ELSE @]]
    /\ UNCHANGED <<alive, httpDuration, httpCounter, amqRequests, broker>>

\* alerts, err := unmarshalAlerts(requestBody) and its error branch; on
\* success control enters the loop over alerts.Alerts.
Decode(r) ==
    /\ alive
    /\ req[r].pc = "decode"
    /\ LET res == unmarshalAlerts(req[r].requestBody) IN
         IF res.err
         THEN /\ httpDuration' = httpDuration + 1
              /\ httpCounter' = Inc(httpCounter, StatusInternalServerError)
              /\ req' = [req EXCEPT ![r] = [@ EXCEPT
                             !.pc = "fatal",
                             !.alerts = res.alerts,
                             !.status = StatusInternalServerError]]
              /\ hist' = [hist EXCEPT ![r] = [@ EXCEPT
                             !.failure = "decode",
                             !.observed = @ + 1,
                             !.httpInc = Append(@, StatusInternalServerError)]]
         ELSE /\ req' = [req EXCEPT ![r] = [@ EXCEPT
                             !.pc = LoopPc(res.alerts, 1),
                             !.alerts = res.alerts,
                             !.idx = 1]]
              /\ UNCHANGED <<httpDuration, httpCounter, hist>>
    /\ UNCHANGED <<alive, amqRequests, broker>>

PublishResultWrongLabel(r) ==
    /\ alive
    /\ req[r].pc = "result"
    /\ amqRequests' = Inc(amqRequests, "not_ok")
    /\ req' = [req EXCEPT ![r] = [@ EXCEPT
                   !.pc = LoopPc(req[r].alerts, req[r].idx + 1),
                   !.idx = @ + 1]]
    /\ hist' = [hist EXCEPT ![r] = [@ EXCEPT !.notOk = @ + 1]]
    /\ UNCHANGED <<alive, httpDuration, httpCounter, broker>>

\* The "ok" increment made twice for one delivered alert.
PublishResultCountsTwice(r) ==
    /\ alive
    /\ req[r].pc = "result"
    /\ amqRequests' = Inc(Inc(amqRequests, "ok"), "ok")
    /\ req' = [req EXCEPT ![r] = [@ EXCEPT
                   !.pc = LoopPc(req[r].alerts, req[r].idx + 1),
                   !.idx = @ + 1]]
    /\ hist' = [hist EXCEPT ![r] = [@ EXCEPT !.ok = @ + 2]]
    /\ UNCHANGED <<alive, httpDuration, httpCounter, broker>>

\* The loop body after sendAlertToStomp returned: the err != nil branch,
\* else the "ok" increment and the next iteration.
PublishResult(r) ==
    /\ alive
    /\ req[r].pc = "result"
    /\ IF req[r].err
       THEN /\ httpDuration' = httpDuration + 1
            /\ amqRequests' = Inc(amqRequests, "not_ok")
            /\ req' = [req EXCEPT ![r] = [@ EXCEPT !.pc = "fatal"]]
            /\ hist' = [hist EXCEPT ![r] = [@ EXCEPT
                           !.observed = @ + 1,
                           !.notOk = @ + 1]]
       ELSE /\ amqRequests' = Inc(amqRequests, "ok")
            /\ req' = [req EXCEPT ![r] = [@ EXCEPT
                           !.pc = LoopPc(req[r].alerts, req[r].idx + 1),
                           !.idx = @ + 1]]
            /\ hist' = [hist EXCEPT ![r] = [@ EXCEPT !.ok = @ + 1]]
            /\ UNCHANGED httpDuration
    /\ UNCHANGED <<alive, httpCounter, broker>>

\* Step 5 of the handler: observe, count the 200, write the 200, return.
Finish(r) ==
    /\ alive
    /\ req[r].pc = "finish"
    /\ httpDuration' = httpDuration + 1
    /\ httpCounter' = Inc(httpCounter, StatusOK)
    /\ req' = [req EXCEPT ![r] = [@ EXCEPT !.pc = "done", !.status = StatusOK]]
    /\ hist' = [hist EXCEPT ![r] = [@ EXCEPT
                   !.observed = @ + 1,
                   !.httpInc = Append(@, StatusOK)]]
    /\ UNCHANGED <<alive, amqRequests, broker>>

\* A log call that writes the entry and comes back, the handler returning
\* after it.
FatalfReturns(r) ==
    /\ alive
    /\ req[r].pc = "fatal"
    /\ req' = [req EXCEPT ![r] = [@ EXCEPT !.pc = "done"]]
    /\ UNCHANGED <<alive, httpDuration, httpCounter, amqRequests, broker, hist>>

\* log.Fatalf: the entry is written and the process exits.
Fatalf(r) ==
    /\ alive
    /\ req[r].pc = "fatal"
    /\ alive' = FALSE
    /\ UNCHANGED <<req, httpDuration, httpCounter, amqRequests, broker, hist>>

---------------------------------------------------------------------------
(* sendAlertToStomp *)

\* A publisher that keeps its connection: only the first publish of a
\* request dials, the later ones send on the connection it already has.
DialReusesConn(r) ==
    /\ alive
    /\ req[r].pc = "dial"
    /\ \E dialErr \in BOOLEAN :
         IF req[r].stompConn # "nil"
         THEN /\ req' = [req EXCEPT ![r] = [@ EXCEPT
                             !.pc = "send",
                             !.stompConn = "open"]]
              /\ hist' = [hist EXCEPT ![r] = [@ EXCEPT !.attempts = @ + 1]]
         ELSE IF dialErr
         THEN /\ req' = [req EXCEPT ![r] = [@ EXCEPT !.pc = "fatal"]]
              /\ hist' = [hist EXCEPT ![r] = [@ EXCEPT
                             !.failure = "connect",
                             !.attempts = @ + 1]]
         ELSE /\ req' = [req EXCEPT ![r] = [@ EXCEPT
                             !.pc = "send",
                             !.stompConn = "open"]]
              /\ hist' = [hist EXCEPT ![r] = [@ EXCEPT
                             !.attempts = @ + 1,
                             !.connects = @ + 1,
                             !.onConn = Append(@, 0)]]
    /\ UNCHANGED <<alive, httpDuration, httpCounter, amqRequests, broker>>

\* json.Marshal of an Alert that json.Unmarshal produced cannot fail (its
\* maps hold only decoded JSON values), so the marshal error branch is never
\* taken.  stomp.Dial with the login option: connect and authenticate.
Dial(r) ==
    /\ alive
    /\ req[r].pc = "dial"
    /\ \E dialErr \in BOOLEAN :
         IF dialErr
         THEN /\ req' = [req EXCEPT ![r] = [@ EXCEPT !.pc = "fatal"]]
              /\ hist' = [hist EXCEPT ![r] = [@ EXCEPT
                             !.failure = "connect",
                             !.attempts = @ + 1]]
         ELSE /\ req' = [req EXCEPT ![r] = [@ EXCEPT
                             !.pc = "send",
                             !.stompConn = "open"]]
              /\ hist' = [hist EXCEPT ![r] = [@ EXCEPT
                             !.attempts = @ + 1,
                             !.connects = @ + 1,
                             !.onConn = Append(@, 0)]]
    /\ UNCHANGED <<alive, httpDuration, httpCounter, amqRequests, broker>>

\* stompConn.Send(topic, "application/json", message) and its error branch.
Send(r) ==
    /\ alive
    /\ req[r].pc = "send"
    /\ \E sendErr \in BOOLEAN :
         IF sendErr
         THEN /\ req' = [req EXCEPT ![r] = [@ EXCEPT !.pc = "fatal"]]
              /\ hist' = [hist EXCEPT ![r] = [@ EXCEPT !.failure = "send"]]
              /\ UNCHANGED broker
         ELSE /\ broker' = [broker EXCEPT ![r] = Append(@,
                     Frame(req[r].topic,
                           Marshal(CurrentAlert(req[r].alerts, req[r].idx))))]
              /\ req' = [req EXCEPT ![r] = [@ EXCEPT !.pc = "disconnect"]]
              /\ hist' = [hist EXCEPT ![r] = [@ EXCEPT
                             !.onConn[Len(hist[r].onConn)] = @ + 1]]
    /\ UNCHANGED <<alive, httpDuration, httpCounter, amqRequests>>

\* _ = stompConn.Disconnect(); return nil.  The outcome of Disconnect is
\* dropped.
Disconnect(r) ==
    /\ alive
    /\ req[r].pc = "disconnect"
    /\ \E disconnectErr \in BOOLEAN :
         /\ req' = [req EXCEPT ![r] = [@ EXCEPT
                        !.pc = "result",
                        !.stompConn = "closed",
                        !.err = FALSE]]
         /\ hist' = [hist EXCEPT ![r] = [@ EXCEPT !.disconnects = @ + 1]]
    /\ UNCHANGED <<alive, httpDuration, httpCounter, amqRequests, broker>>

---------------------------------------------------------------------------
Step(r) ==
    \/ Receive(r)
    \/ Decode(r)
    \/ Dial(r)
    \/ Send(r)
    \/ Disconnect(r)
    \/ PublishResult(r)
    \/ Finish(r)
    \/ Fatalf(r)

Next == \E r \in Requests : Step(r)

Spec == Init /\ [][Next]_vars
---------------------------------------------------------------------------
(* Vocabulary of the properties *)

\* The forward call of r is over: the handler returned, or the process
\* exited with r at its log.Fatalf.
Ended(r) == req[r].pc = "done" \/ (~alive /\ req[r].pc = "fatal")

\* A publish of r failed: stomp.Dial or stompConn.Send returned an error.
PublishFailed(r) == hist[r].failure \in {"connect", "send"}

RECURSIVE SumOver(_, _)
SumOver(S, f) ==
    IF S = {} THEN 0
    ELSE LET x == CHOOSE y \in S : TRUE IN f[x] + SumOver(S \ {x}, f)

---------------------------------------------------------------------------
\* C1: a publish failure for one alert does not abort the remaining alerts:
\* a forward call in which a publish failed has, once it is over, attempted
\* sendAlertToStomp for every one of its N decoded alerts.
C1_AllAlertsAttempted ==
    \A r \in Requests :
        (Ended(r) /\ PublishFailed(r)) => hist[r].attempts = Len(req[r].alerts)

\* C2: every request is answered 200 when the payload decoded and every
\* publish succeeded, and 500 when the read or decode failed or a publish
\* failed; a request with a failed publish is never left without its 500.
C2_AnsweredOkOrError ==
    \A r \in Requests :
        Ended(r) =>
            IF hist[r].failure = "none"
            THEN req[r].status = StatusOK
            ELSE req[r].status = StatusInternalServerError

\* C3: when unmarshalAlerts returns an error the call short-circuits: the
\* request opens no connection, sends no message, and increments neither the
\* ok nor the not_ok counter.
C3_DecodeFailureShortCircuits ==
    \A r \in Requests :
        hist[r].failure = "decode" =>
            /\ hist[r].attempts = 0
            /\ hist[r].connects = 0
            /\ req[r].stompConn = "nil"
            /\ broker[r] = <<>>
            /\ hist[r].ok = 0
            /\ hist[r].notOk = 0

\* A body with a type mismatch, from which alerts were decoded all the same,
\* failed to decode, and the process has exited on it.
C3_Witness ==
    \E r \in Requests :
        /\ hist[r].failure = "decode"
        /\ Len(req[r].alerts) > 0
        /\ req[r].pc = "fatal"
        /\ ~alive

\* C4: each publish attempt increments exactly the counter of its outcome:
\* once a forward call that reached the loop is over, its not_ok increments
\* number its failed attempts and its ok increments its successful ones.
C4_OneCounterPerAttempt ==
    \A r \in Requests :
        (Ended(r) /\ hist[r].failure \notin {"read", "decode"}) =>
            LET k == IF PublishFailed(r) THEN 1 ELSE 0 IN
                /\ hist[r].notOk = k
                /\ hist[r].ok = hist[r].attempts - k

\* C5: a forward call on N >= 0 alerts that is over with no failure made
\* exactly N publish calls, all delivered, answered 200, and incremented ok
\* exactly N times and not_ok never.
C5_AllSucceed ==
    \A r \in Requests :
        (Ended(r) /\ hist[r].failure = "none") =>
            /\ req[r].status = StatusOK
            /\ hist[r].attempts = Len(req[r].alerts)
            /\ Len(broker[r]) = Len(req[r].alerts)
            /\ hist[r].ok = Len(req[r].alerts)
            /\ hist[r].notOk = 0

\* One request succeeded on an empty batch and another on a full one.
C5_Witness ==
    \E r1, r2 \in Requests :
        /\ req[r1].pc = "done" /\ Len(req[r1].alerts) = 0
        /\ hist[r1].attempts = 0 /\ req[r1].status = StatusOK
        /\ req[r2].pc = "done" /\ Len(req[r2].alerts) = MaxAlerts
        /\ hist[r2].ok = MaxAlerts

\* C6: within one forward call the frames the broker received are, in order,
\* the frames of a prefix of the decoded alerts; a publish begins only when
\* every earlier publish of the request has sent and disconnected, and a
\* request never holds two open connections.
C6_InOrderSequential ==
    \A r \in Requests :
        /\ Len(broker[r]) <= Len(req[r].alerts)
        /\ \A i \in 1..Len(broker[r]) :
               broker[r][i] = Frame(req[r].topic, Marshal(req[r].alerts[i]))
        /\ hist[r].connects - hist[r].disconnects \in {0, 1}
        /\ req[r].pc = "dial" =>
               /\ req[r].stompConn # "open"
               /\ hist[r].connects = hist[r].disconnects
               /\ hist[r].attempts = req[r].idx - 1
               /\ Len(broker[r]) = req[r].idx - 1

\* A request is about to connect for its second alert, the first delivered.
C6_Witness ==
    \E r \in Requests :
        /\ req[r].pc = "dial"
        /\ req[r].idx = 2
        /\ Len(broker[r]) = 1
        /\ \E q \in Requests \ {r} : req[q].pc = "send"

\* C7: on every path through the handler the histogram is observed exactly
\* once and the HTTP-outcome counter incremented exactly once, with the
\* label of the status written.
C7_OncePerRequest ==
    \A r \in Requests :
        Ended(r) =>
            /\ hist[r].observed = 1
            /\ hist[r].httpInc = <<req[r].status>>

\* C8: a forward call that has begun runs to completion whatever fails in
\* another request: a begun call that ran into no failure and has no result
\* yet can take its next step.
C8_RunsToCompletion ==
    \A r \in Requests :
        (req[r].pc \notin {"idle", "done"} /\ hist[r].failure = "none")
            => ENABLED Step(r)

C10_DisconnectOnEveryExit ==
    \A r \in Requests :
        hist[r].connects > hist[r].disconnects =>
            \/ req[r].pc \in {"send", "disconnect"}
            \/ (req[r].pc = "fatal" /\ alive)
\* C11: when stomp.Dial returns an error, sendAlertToStomp returns the
\* error to the handler with no send attempted, and the handler counts the
\* publish as not_ok: once the call is over, the failed attempt left no
\* frame, err holds the error and not_ok was incremented once.
C11_ConnectFailureReported ==
    \A r \in Requests :
        (Ended(r) /\ hist[r].failure = "connect") =>
            /\ Len(broker[r]) = hist[r].attempts - 1
            /\ Len(hist[r].onConn) = hist[r].attempts - 1
            /\ req[r].err
            /\ hist[r].notOk = 1

\* C12: every publish call that connects opens a connection of its own and
\* sends at most one frame on it: the connections a request opened number
\* its publish attempts (less the one whose Dial failed), each carried at
\* most one frame, all but the last exactly one, and at most one is open.
C12_OneConnectionPerPublish ==
    \A r \in Requests :
        LET h == hist[r] IN
            /\ Len(h.onConn) = h.connects
            /\ h.connects = h.attempts - (IF h.failure = "connect" THEN 1 ELSE 0)
            /\ \A i \in 1..Len(h.onConn) : h.onConn[i] \in {0, 1}
            /\ \A i \in 1..(Len(h.onConn) - 1) : h.onConn[i] = 1
            /\ SumOver(1..Len(h.onConn), h.onConn) = Len(broker[r])
            /\ h.connects - h.disconnects \in {0, 1}
            /\ (req[r].stompConn = "open") = (h.connects - h.disconnects = 1)

\* A request has sent its second alert on its second connection, the first
\* connection closed after its one frame.
C12_Witness ==
    \E r \in Requests :
        /\ hist[r].onConn = <<1, 1>>
        /\ hist[r].attempts = 2
        /\ hist[r].disconnects = 1
        /\ req[r].stompConn = "open"
\* C13 as stated: once any request has run into a failure, no further
\* connect, send, counter increment or HTTP response occurs, in that request
\* or in any other.
C13_NothingAfterFirstFailure ==
    [][(\E r \in Requests : hist[r].failure # "none") =>
           /\ broker' = broker
           /\ amqRequests' = amqRequests
           /\ httpCounter' = httpCounter
           /\ \A r \in Requests :
                  /\ hist'[r].connects = hist[r].connects
                  /\ req'[r].status = req[r].status]_vars

\* C13 as amended: every failure path ends in log.Fatalf: a request that ran
\* into a failure stands at its log.Fatalf and does nothing more, the
\* process can only go from running to exited, and once it has exited
\* nothing changes in any request.
C13_FailStop ==
    [][/\ \A r \in Requests :
              hist[r].failure # "none" =>
                  /\ req[r].pc = "fatal"
                  /\ req'[r] = req[r]
                  /\ hist'[r] = hist[r]
                  /\ broker'[r] = broker[r]
       /\ alive' => alive
       /\ ~alive => vars' = vars]_vars

\* The process exited on one request's failure while another request, which
\* ran into none, was in the middle of a publish.
C13_Witness ==
    \E r, q \in Requests :
        /\ ~alive
        /\ hist[r].failure # "none"
        /\ hist[q].failure = "none"
        /\ req[q].pc \in {"send", "disconnect", "result"}

\* C14: ok never exceeds the number of messages whose send succeeded, and
\* the successful sends exceed ok by at most the number of requests in
\* flight (begun, handler not returned).
C14_OkTracksSends ==
    LET sends == SumOver(Requests, [r \in Requests |-> Len(broker[r])])
        inFlight == {r \in Requests : req[r].pc \notin {"idle", "done"}}
    IN  /\ amqRequests["ok"] <= sends
        /\ sends - amqRequests["ok"] <= Cardinality(inFlight)

\* Every request has delivered an alert it has not counted yet, one of them
\* after counting an earlier one.
C14_Witness ==
    /\ \A r \in Requests : req[r].pc \in {"disconnect", "result"}
    /\ amqRequests["ok"] >= 1
    /\ SumOver(Requests, [r \in Requests |-> Len(broker[r])]) - amqRequests["ok"] = NReq

====
